---- MODULE Spec2Model ----
(***************************************************************************)
(* A model of jadepy: the indentation-driven parser of jade/parse.py       *)
(* (AbstractLexer, Parser) coupled to the emitter of jade/compile.py       *)
(* (Compiler).  Texts are sequences of one-character strings.  One action  *)
(* per parser state function; the trampoline of AbstractLexer.__call__     *)
(* invokes the function named by the variable state.                       *)
(***************************************************************************)
EXTENDS Integers, Sequences, FiniteSets, TLC

(***************************************************************************)
(* Bounds of the model.                                                    *)
(***************************************************************************)
\* longest input enumerated character by character
MaxLen == 4
\* most lines of an input enumerated line by line
MaxLines == 3
\* most state invocations of one run that are explored
MaxSteps == 40
\* most emitter calls of one run of the emitter alone
MaxEvents == 7

(***************************************************************************)
(* Lexical classes (Parser.valid_in_tags, valid_in_keys, valid_in_idents,  *)
(* inline_whitespace).                                                     *)
(***************************************************************************)
lowercase ==
  {"a","b","c","d","e","f","g","h","i","j","k","l","m",
   "n","o","p","q","r","s","t","u","v","w","x","y","z"}

uppercase ==
  {"A","B","C","D","E","F","G","H","I","J","K","L","M",
   "N","O","P","Q","R","S","T","U","V","W","X","Y","Z"}

letters == lowercase \cup uppercase

digits == {"0","1","2","3","4","5","6","7","8","9"}

valid_in_tags == letters \cup digits

valid_in_keys == letters \cup {"-", ":"}

valid_in_idents == letters \cup digits \cup {"-", "_"}

inline_whitespace == {" ", "\t"}

Min2(a, b) == IF a <= b THEN a ELSE b

(***************************************************************************)
(* utils.has_proper_prefix                                                 *)
(***************************************************************************)
startswith(s, prefix) ==
  /\ Len(prefix) <= Len(s)
  /\ SubSeq(s, 1, Len(prefix)) = prefix

has_proper_prefix(s, prefix) ==
  Len(s) > Len(prefix) /\ startswith(s, prefix)

(***************************************************************************)
(* The inputs.  Three families: every string over Alphabet of at most      *)
(* MaxLen characters, every document of at most MaxLines lines drawn from  *)
(* LineSet (with and without the final newline), and the Examples.         *)
(***************************************************************************)
Alphabet == {"p", " ", "\n", "=", ".", "(", ")"}

CharInputs == UNION {[1..k -> Alphabet] : k \in 0..MaxLen}

Indents == {<<>>, <<" ">>, <<" "," ">>}

Bodies == {<<"p"," ","x">>, <<"i","f"," ","x">>, <<"e","l","s","e">>, <<"="," ","x">>, <<"p",".">>}

LineSet == {i \o b : i \in Indents, b \in Bodies}

RECURSIVE Docs(_)
\* the first line is not indented: the parse starts in the tag state
Docs(n) ==
  IF n = 0 THEN {<<>>}
  ELSE IF n = 1 THEN {b \o <<"\n">> : b \in Bodies}
  ELSE {d \o l \o <<"\n">> : d \in Docs(n - 1), l \in LineSet}

Chop(d) == IF d = <<>> THEN d ELSE SubSeq(d, 1, Len(d) - 1)

LineInputs ==
  LET ds == UNION {Docs(n) : n \in 0..MaxLines}
  IN  ds \cup {Chop(d) : d \in ds}

IfElseInput == <<"i","f"," ","x","\n"," "," ","p"," ","y","e","s","\n","e","l","s","e","\n"," "," ","p"," ","n","o","\n">>

Examples ==
  { IfElseInput,
    <<"p"," ","H","e","l","l","o">>,
    <<"p"," ","H","e","l","l","o","\n">>,
    <<"i","f"," ","a","\n"," ","i","f"," ","b","\n"," "," ","p","\n">>,
    <<"d","i","v","\n"," "," ","i","f"," ","a","\n"," "," "," "," ","p","\n">>,
    <<"p","!","=","x","\n">>,
    <<"p","="," ","x","\n">>,
    <<"p",":"," ","a","\n">>,
    <<"!","=">>,
    <<"-">>,
    <<"/","/","-">>,
    <<"-"," ","x","\n">>,
    <<"/","/","-"," ","c","\n"," "," ","d","\n","p","\n">>,
    <<"a","(","b","=","\n",")">>,
    <<"a","(","b","=","\n",",","b","=","1",")","\n">>,
    <<"a","(","b","=","1",","," ","c","=","2",")","\n">>,
    <<"a","(","i","d","=","x",",","c","l","a","s","s","=","y",")","\n">>,
    <<"a","(","b",")","\n">>,
    <<"a","(","b">>,
    <<"a","(","b","=","f","(","\"",",","\"",")">>,
    <<"d","i","v","#","m","a","i","n",".","b","i","g","(","d","a","t","a","-","x","=","1",")","\n">>,
    <<".","#","i","d","\n">>,
    <<":","f"," ","x","\n">>,
    <<"|"," ","x","\n">>,
    <<"f","o","r"," ","x"," ","i","n"," ","y","\n"," "," ","p","\n">>,
    <<"b","l","o","c","k"," ","b","\n"," "," ","p","\n">>,
    <<"b","l","o","c","k"," ","a","p","p","e","n","d"," ","b","\n"," "," ","p","\n">>,
    <<"b","l","o","c","k"," ","p","r","e","p","e","n","d"," ","b","\n">>,
    <<"e","l","s","e"," ","i","f"," ","c","\n">>,
    <<"e","a","c","h"," ","x"," ","i","n"," ","y","\n">>,
    <<"/","/"," ","c","\n">>,
    <<"d","o","c","t","y","p","e","\n">>,
    <<"d","o","c","t","y","p","e"," ","X","M","L","\n">>,
    <<"!","!","!"," ","5","\n">>,
    <<"e","x","t","e","n","d","s"," ","b","\n">>,
    <<"i","f","r","a","m","e","\n">>,
    <<"i","f","r","a","m","e"," ","x","\n">>,
    <<"i","f","5","\n">>,
    <<"e","l","s","e"," ","i","f","x","\n">>,
    <<"m","i","x","i","n"," ","f","\n">>,
    <<"m","i","x","i","n"," ","f","(","x",")","\n"," "," ","p","\n">>,
    <<"a","(","x","=","f","(","{","\"","k","\"",":","\"",",","\"","}",")",")">>,
    <<"a","(","x","=","f","(","{","\"","k","\"",":","\"",",","\"","}",")",")","\n">>,
    <<"a","(","x","="," ","g","[","1",",","2","]"," ",","," ","y","=","'",")",",","'",")","\n">>,
    <<"a","(","b",",","c","=","1",")","\n">>,
    <<"i","f"," ","x","\n"," "," ","p","\n","e","l","i","f"," ","y","\n"," "," ","p","\n","e","l","s","e","\n"," "," ","p","\n">>
  }

Inputs == CharInputs \cup LineInputs \cup Examples

(***************************************************************************)
(* State.                                                                  *)
(***************************************************************************)
VARIABLES
  text,                 \* AbstractLexer.text
  state,                \* the state function the trampoline calls next
  start,                \* AbstractLexer.start
  pos,                  \* AbstractLexer.pos
  indent_levels,        \* Parser.indent_levels
  indented_blocks,      \* Parser.indented_blocks
  this_tag,             \* Parser.this_tag
  this_tag_attr_key,    \* Parser.this_tag_attr_key
  verbatim_leader,      \* Parser.verbatim_leader
  blocks,               \* Compiler.blocks
  deferred_endif,       \* Compiler.deferred_endif: <<>> or <<endif, newlines>>
  tmpvar_count,         \* Compiler.tmpvar_count
  stream,               \* the characters written to Compiler.stream
  events,               \* the emitter calls made so far, as DummyCompiler prints them
  trail,                \* <<start, pos>> after each cursor primitive of the last state call
  err,                  \* the exception that ended the run, NoErr if none
  sink,                 \* what the stream does with the text written to it
  nsteps,               \* state invocations so far, counted while the output is kept
  tick                  \* parity of the number of state invocations

vars ==
  <<text, state, start, pos, indent_levels, indented_blocks, this_tag,
    this_tag_attr_key, verbatim_leader, blocks, deferred_endif, tmpvar_count,
    stream, events, trail, err, sink, nsteps, tick>>

NoTag == [kind |-> "none"]

HTMLTag(name) ==
  [kind |-> "html", name |-> name, class_ |-> <<>>, id_ |-> <<>>, attr |-> <<>>]

ControlTag(name, head) ==
  [kind |-> "control", name |-> name, head |-> head]

(***************************************************************************)
(* The cursor primitives of AbstractLexer.  A cursor c is a record         *)
(* [start, pos, trail]; every primitive that moves start or pos appends    *)
(* the new pair to trail.                                                  *)
(***************************************************************************)
Mark(c) == [c EXCEPT !.trail = Append(@, <<c.start, c.pos>>)]

Cursor == [start |-> start, pos |-> pos, trail |-> <<>>]

\* text[a:b] of Python for 0 <= a
Slice(a, b) == SubSeq(text, a + 1, Min2(b, Len(text)))

off_end(c) == c.pos >= Len(text)

peek(c, n) == Slice(c.pos, c.pos + n)

\* self.pos += n
move(c, n) == [c EXCEPT !.pos = @ + n]

advance(c, n) == Mark(move(c, n))

backup(c, n) == Mark(move(c, 0 - n))

rollback(c) == Mark([c EXCEPT !.pos = c.start])

drop(c) == Mark([c EXCEPT !.start = c.pos])

\* the text conclude() returns; conclude moves the cursor as drop does
Lexeme(c) == Slice(c.start, c.pos)

conclude(c) == Mark([c EXCEPT !.start = c.pos])

RECURSIVE FirstMatch(_, _)
FirstMatch(c, valids) ==
  IF valids = <<>> THEN <<>>
  ELSE IF peek(c, Len(Head(valids))) = Head(valids) THEN Head(valids)
  ELSE FirstMatch(c, Tail(valids))

\* the alternative accept(*valids) returns, <<>> if none matches
Accepted(c, valids) == FirstMatch(c, valids)

accept(c, valids) ==
  IF Accepted(c, valids) = <<>> THEN c
  ELSE advance(c, Len(Accepted(c, valids)))

RECURSIVE RunWhile(_, _)
\* while valid(self.advance()): pass
RunWhile(c, valid) ==
  LET rune == peek(c, 1)
  IN  IF rune # <<>> /\ rune[1] \in valid THEN RunWhile(move(c, 1), valid)
      ELSE move(c, 1)

\* one primitive to the state that calls it: the cursor is recorded when it
\* returns, after its last advance has been backed up
accept_run(c, valid) == backup(RunWhile(c, valid), 1)

_accept_inline_whitespace(c) == accept_run(c, inline_whitespace)

_accept_ident(c) == accept_run(c, valid_in_idents)

RECURSIVE _advance_line(_)
_advance_line(c) ==
  LET rune == peek(c, 1)
      c1   == advance(c, 1)
  IN  IF rune = <<>> \/ rune = <<"\n">> THEN backup(c1, 1) ELSE _advance_line(c1)

_drop_inline_whitespace(c) == drop(accept_run(c, inline_whitespace))

(***************************************************************************)
(* AbstractLexer.error.  The exception a state raises: a LexError with the *)
(* position and the line of start, or the IndexError of the lookup in      *)
(* newline_pos when start lies beyond the last entry.                      *)
(***************************************************************************)
RECURSIVE find_all(_)
\* the 0-based offsets of "\n" in text, searched from offset i
find_all(i) ==
  IF i >= Len(text) THEN <<>>
  ELSE IF text[i + 1] = "\n" THEN <<i>> \o find_all(i + 1)
  ELSE find_all(i + 1)

newline_pos == <<-1>> \o find_all(0) \o <<Len(text)>>

bisect_left(a, x) == Cardinality({i \in 1..Len(a) : a[i] < x})

error(c, msg, cls) ==
  LET lineno == bisect_left(newline_pos, c.start)
  IN  IF lineno >= Len(newline_pos)
      THEN [cls |-> "IndexError"]
      ELSE LET last_newline == newline_pos[lineno]
           IN  [cls    |-> cls,
                msg    |-> msg,
                lineno |-> lineno,
                colno  |-> c.pos - last_newline,
                line   |-> Slice(last_newline + 1, newline_pos[lineno + 1])]

(***************************************************************************)
(* The emitter, jade/compile.py.  An emitter value k is the record         *)
(* [blocks, deferred_endif, tmpvar_count, stream, events, raised]; raised  *)
(* is "" until a call raises, and a call on a raised emitter does nothing  *)
(* (the exception has already ended the run).                              *)
(***************************************************************************)
Emitter ==
  [blocks |-> blocks, deferred_endif |-> deferred_endif,
   tmpvar_count |-> tmpvar_count, stream |-> stream, events |-> events,
   raised |-> ""]

\* self.stream.write(s).  The emitter only writes to its stream and never
\* reads it: a "buffer" keeps the text, a "null" stream discards it.
write(k, s) == IF sink = "buffer" THEN [k EXCEPT !.stream = @ \o s] ELSE k

\* the log of the emitter calls, kept with the output
log(k, e) == IF sink = "buffer" THEN [k EXCEPT !.events = Append(@, e)] ELSE k

Digit(d) ==
  CASE d = 0 -> "0" [] d = 1 -> "1" [] d = 2 -> "2" [] d = 3 -> "3"
    [] d = 4 -> "4" [] d = 5 -> "5" [] d = 6 -> "6" [] d = 7 -> "7"
    [] d = 8 -> "8" [] d = 9 -> "9"

RECURSIVE Decimal(_)
\* '%d' % n for n >= 0
Decimal(n) == IF n < 10 THEN <<Digit(n)>> ELSE Decimal(n \div 10) \o <<Digit(n % 10)>>

tmpvar_name(k) == <<"_","j","a","d","e","_">> \o Decimal(k.tmpvar_count)

put_tmpvar(k, val) ==
  write([k EXCEPT !.tmpvar_count = @ + 1],
        <<"{","%"," ","s","e","t"," ">> \o tmpvar_name(k) \o <<" ","="," ">> \o val \o <<" ","%","}">>)

\* dismiss_endif writing the deferred endif as put_endif does
dismiss_endif_written(k) ==
  IF k.deferred_endif # <<>>
  THEN [write(k, k.deferred_endif[1] \o k.deferred_endif[2])
          EXCEPT !.deferred_endif = <<>>]
  ELSE k

dismiss_endif(k) ==
  IF k.deferred_endif # <<>>
  THEN [write(k, k.deferred_endif[2]) EXCEPT !.deferred_endif = <<>>]
  ELSE k

\* put_endif that leaves a deferred close pending
put_endif_kept(k) == k

\* put_endif writing the newlines only, as dismiss_endif does
put_endif_dismissed(k) ==
  IF k.deferred_endif # <<>>
  THEN [write(k, k.deferred_endif[2]) EXCEPT !.deferred_endif = <<>>]
  ELSE k

put_endif(k) ==
  IF k.deferred_endif # <<>>
  THEN [write(k, k.deferred_endif[1] \o k.deferred_endif[2])
          EXCEPT !.deferred_endif = <<>>]
  ELSE k

Lower(ch) ==
  CASE ch = "A" -> "a" [] ch = "B" -> "b" [] ch = "C" -> "c" [] ch = "D" -> "d"
    [] ch = "E" -> "e" [] ch = "F" -> "f" [] ch = "G" -> "g" [] ch = "H" -> "h"
    [] ch = "I" -> "i" [] ch = "J" -> "j" [] ch = "K" -> "k" [] ch = "L" -> "l"
    [] ch = "M" -> "m" [] ch = "N" -> "n" [] ch = "O" -> "o" [] ch = "P" -> "p"
    [] ch = "Q" -> "q" [] ch = "R" -> "r" [] ch = "S" -> "s" [] ch = "T" -> "t"
    [] ch = "U" -> "u" [] ch = "V" -> "v" [] ch = "W" -> "w" [] ch = "X" -> "x"
    [] ch = "Y" -> "y" [] ch = "Z" -> "z" [] OTHER -> ch

lower(s) == [i \in 1..Len(s) |-> Lower(s[i])]

doctypes(key, default) ==
  CASE key = <<"5">> -> <<"<","!","D","O","C","T","Y","P","E"," ","h","t","m","l",">">>
    [] key = <<"d","e","f","a","u","l","t">> -> <<"<","!","D","O","C","T","Y","P","E"," ","h","t","m","l",">">>
    [] key = <<"x","m","l">> -> <<"<","?","x","m","l"," ","v","e","r","s","i","o","n","=","\"","1",".","0","\""," ","e","n","c","o","d","i","n","g","=","\"","u","t","f","-","8","\""," ","?",">">>
    [] key = <<"t","r","a","n","s","i","t","i","o","n","a","l">> ->
         <<"<","!","D","O","C","T","Y","P","E"," ","h","t","m","l"," ","P","U","B","L","I","C"," ","\"","-","/","/","W","3","C","/","/","D","T","D"," ","X","H","T","M","L"," ","1",".","0"," ","T","r","a","n","s","i","t","i","o","n","a","l","/","/","E","N","\""," ","\"","h","t","t","p",":","/","/","w","w","w",".","w","3",".","o","r","g","/","T","R","/","x","h","t","m","l","1","/","D","T","D","/","x","h","t","m","l","1","-","t","r","a","n","s","i","t","i","o","n","a","l",".","d","t","d","\"",">">>
    [] key = <<"s","t","r","i","c","t">> ->
         <<"<","!","D","O","C","T","Y","P","E"," ","h","t","m","l"," ","P","U","B","L","I","C"," ","\"","-","/","/","W","3","C","/","/","D","T","D"," ","X","H","T","M","L"," ","1",".","0"," ","S","t","r","i","c","t","/","/","E","N","\""," ","\"","h","t","t","p",":","/","/","w","w","w",".","w","3",".","o","r","g","/","T","R","/","x","h","t","m","l","1","/","D","T","D","/","x","h","t","m","l","1","-","s","t","r","i","c","t",".","d","t","d","\"",">">>
    [] key = <<"f","r","a","m","e","s","e","t">> ->
         <<"<","!","D","O","C","T","Y","P","E"," ","h","t","m","l"," ","P","U","B","L","I","C"," ","\"","-","/","/","W","3","C","/","/","D","T","D"," ","X","H","T","M","L"," ","1",".","0"," ","F","r","a","m","e","s","e","t","/","/","E","N","\""," ","\"","h","t","t","p",":","/","/","w","w","w",".","w","3",".","o","r","g","/","T","R","/","x","h","t","m","l","1","/","D","T","D","/","x","h","t","m","l","1","-","f","r","a","m","e","s","e","t",".","d","t","d","\"",">">>
    [] key = <<"1",".","1">> ->
         <<"<","!","D","O","C","T","Y","P","E"," ","h","t","m","l"," ","P","U","B","L","I","C"," ","\"","-","/","/","W","3","C","/","/","D","T","D"," ","X","H","T","M","L"," ","1",".","1","/","/","E","N","\""," ","\"","h","t","t","p",":","/","/","w","w","w",".","w","3",".","o","r","g","/","T","R","/","x","h","t","m","l","1","1","/","D","T","D","/","x","h","t","m","l","1","1",".","d","t","d","\"",">">>
    [] key = <<"b","a","s","i","c">> ->
         <<"<","!","D","O","C","T","Y","P","E"," ","h","t","m","l"," ","P","U","B","L","I","C"," ","\"","-","/","/","W","3","C","/","/","D","T","D"," ","X","H","T","M","L"," ","B","a","s","i","c"," ","1",".","1","/","/","E","N","\""," ","\"","h","t","t","p",":","/","/","w","w","w",".","w","3",".","o","r","g","/","T","R","/","x","h","t","m","l","-","b","a","s","i","c","/","x","h","t","m","l","-","b","a","s","i","c","1","1",".","d","t","d","\"",">">>
    [] key = <<"m","o","b","i","l","e">> ->
         <<"<","!","D","O","C","T","Y","P","E"," ","h","t","m","l"," ","P","U","B","L","I","C"," ","\"","-","/","/","W","A","P","F","O","R","U","M","/","/","D","T","D"," ","X","H","T","M","L"," ","M","o","b","i","l","e"," ","1",".","2","/","/","E","N","\""," ","\"","h","t","t","p",":","/","/","w","w","w",".","o","p","e","n","m","o","b","i","l","e","a","l","l","i","a","n","c","e",".","o","r","g","/","t","e","c","h","/","D","T","D","/","x","h","t","m","l","-","m","o","b","i","l","e","1","2",".","d","t","d","\"",">">>
    [] OTHER -> default

doctype(tag) ==
  doctypes(IF lower(tag.head) # <<>> THEN lower(tag.head) ELSE <<"d","e","f","a","u","l","t">>,
           <<"<","!","D","O","C","T","Y","P","E"," ">> \o tag.head \o <<">">>)

default_start(tag) == <<"{","%"," ">> \o tag.name \o <<" ">> \o tag.head \o <<" ","%","}">>

default_end(tag) == <<"{","%"," ","e","n","d">> \o tag.name \o <<" ","%","}">>

\* maybe_call(control_blocks[tag.name][0], tag)
control_blocks_start(tag) ==
  CASE tag.name = <<"=">> -> <<"{","{"," ">>
    [] tag.name = <<"!","=">> -> <<"{","{"," ">>
    [] tag.name = <<"-">> -> <<"{","%"," ">>
    [] tag.name = <<"|">> -> <<>>
    [] tag.name = <<"/","/">> -> <<"<","!","-","-">> \o tag.head
    [] tag.name = <<"/","/","-">> -> <<"{","#">>
    [] tag.name = <<":">> -> <<"{","%"," ","f","i","l","t","e","r"," ">> \o tag.head \o <<" ","%","}">>
    [] tag.name = <<"m","i","x","i","n">> -> <<"{","%"," ","m","a","c","r","o"," ">> \o tag.head \o <<" ","%","}">>
    [] tag.name = <<"p","r","e","p","e","n","d">> -> <<"{","%"," ","b","l","o","c","k"," ">> \o tag.head \o <<" ","%","}">>
    [] tag.name = <<"a","p","p","e","n","d">> -> <<"{","%"," ","b","l","o","c","k"," ">> \o tag.head \o <<" ","%","}"," ","{","{"," ","s","u","p","e","r","(",")"," ","}","}">>
    [] tag.name = <<"e","x","t","e","n","d","s">> -> default_start(tag)
    [] tag.name = <<"d","o","c","t","y","p","e">> -> doctype(tag)
    [] tag.name = <<"e","l","s","e">> -> <<"{","%"," ","e","l","s","e"," ","%","}">>
    [] OTHER -> default_start(tag)

\* maybe_call(control_blocks[tag.name][1], tag)
control_blocks_end(tag) ==
  CASE tag.name = <<"=">> -> <<" ","}","}">>
    [] tag.name = <<"!","=">> -> <<" ","|","s","a","f","e","}","}">>
    [] tag.name = <<"-">> -> <<" ","%","}">>
    [] tag.name = <<"|">> -> <<>>
    [] tag.name = <<"/","/">> -> <<"-","-",">">>
    [] tag.name = <<"/","/","-">> -> <<"#","}">>
    [] tag.name = <<":">> -> <<"{","%"," ","e","n","d","f","i","l","t","e","r"," ","%","}">>
    [] tag.name = <<"m","i","x","i","n">> -> <<"{","%"," ","e","n","d","m","a","c","r","o"," ","%","}">>
    [] tag.name = <<"p","r","e","p","e","n","d">> -> <<"{","{"," ","s","u","p","e","r","(",")"," ","}","}"," ","{","%"," ","e","n","d","b","l","o","c","k"," ","%","}">>
    [] tag.name = <<"a","p","p","e","n","d">> -> <<"{","%"," ","e","n","d","b","l","o","c","k"," ","%","}">>
    [] tag.name = <<"e","x","t","e","n","d","s">> -> <<>>
    [] tag.name = <<"d","o","c","t","y","p","e">> -> <<>>
    [] tag.name = <<"e","l","s","e">> -> <<"{","%"," ","e","n","d","i","f"," ","%","}">>
    [] OTHER -> default_end(tag)

(***************************************************************************)
(* HTMLTag.attr is a dict: a sequence of <<key, value>> pairs here, kept   *)
(* in insertion order, a second assignment to a key replacing its value.   *)
(***************************************************************************)
has_key(attr, key) == \E i \in 1..Len(attr) : attr[i][1] = key

attr_get(attr, key) == attr[CHOOSE i \in 1..Len(attr) : attr[i][1] = key][2]

attr_set(attr, key, val) ==
  IF has_key(attr, key)
  THEN [i \in 1..Len(attr) |-> IF attr[i][1] = key THEN <<key, val>> ELSE attr[i]]
  ELSE Append(attr, <<key, val>>)

attr_pop(attr, key) == SelectSeq(attr, LAMBDA kv : kv[1] # key)

\* the orders in which iterating a dict of these items can yield them
iteritems(attr) ==
  {s \in [1..Len(attr) -> {attr[i] : i \in 1..Len(attr)}] :
     \A i, j \in 1..Len(attr) : i # j => s[i] # s[j]}

RECURSIVE write_attrs(_, _)
write_attrs(k, items) ==
  IF items = <<>> THEN k
  ELSE write_attrs(
         write(k, <<" ">> \o items[1][1] \o <<"=","\"","{","{"," ">> \o items[1][2] \o <<" ","|","e","s","c","a","p","e","}","}","\"">>),
         Tail(items))

\* the attr dict of an HTMLTag after start_block has popped id and class
remaining_attr(tag) == attr_pop(attr_pop(tag.attr, <<"i","d">>), <<"c","l","a","s","s">>)

start_html(k, tag, items) ==
  LET k1 == write(k, <<"<">> \o tag.name)
      k2 == IF has_key(tag.attr, <<"i","d">>)
            THEN write(k1, <<" ","i","d","=","\"","{","{"," ">> \o attr_get(tag.attr, <<"i","d">>) \o <<" ","|","e","s","c","a","p","e","}","}","\"">>)
            ELSE IF tag.id_ # <<>>
            THEN write(k1, <<" ","i","d","=","\"">> \o tag.id_ \o <<"\"">>)
            ELSE k1
      k3 == IF has_key(tag.attr, <<"c","l","a","s","s">>)
            THEN write(k2, <<" ","c","l","a","s","s","=","\"">>
                           \o (IF tag.class_ # <<>> THEN tag.class_ \o <<" ">> ELSE <<>>)
                           \o <<"{","{"," ","_","j","a","d","e","_","c","l","a","s","s","(">> \o attr_get(tag.attr, <<"c","l","a","s","s">>)
                           \o <<")"," ","|","e","s","c","a","p","e","}","}","\"">>)
            ELSE IF tag.class_ # <<>>
            THEN write(k2, <<" ","c","l","a","s","s","=","\"">> \o tag.class_ \o <<"\"">>)
            ELSE k2
  IN  [write(write_attrs(k3, items), <<">">>)
         EXCEPT !.blocks[Len(k.blocks)].attr = remaining_attr(tag)]

\* Compiler.parser is assigned only by Compiler.start, which main never calls
parser_error(k, msg) == [k EXCEPT !.raised = "AttributeError"]

\* start_block for when and default without the test of seen_default
start_when_after_default(k, tag) ==
  LET n        == Len(k.blocks)
      case_tag == IF n >= 2 THEN k.blocks[n - 1] ELSE NoTag
  IN  IF case_tag.kind = "none" \/ case_tag.name # <<"c","a","s","e">>
      THEN parser_error(k, "tag not child of case tag")
      ELSE IF tag.name = <<"w","h","e","n">>
      THEN IF FALSE
           THEN parser_error(k, "when tag after default tag")
           ELSE [write(k, <<"{","%"," ">>
                          \o (IF case_tag.seen_when THEN <<"e","l","i","f">> ELSE <<"i","f">>)
                          \o <<" ">> \o case_tag.var \o <<" ","=","="," ">> \o tag.head \o <<" ","%","}">>)
                   EXCEPT !.blocks[n - 1].seen_when = TRUE]
      ELSE IF FALSE
           THEN parser_error(k, "duplicate default tag")
           ELSE IF ~case_tag.seen_when
           THEN parser_error(k, "default tag before when tag")
           ELSE [write(k, <<"{","%"," ","e","l","s","e"," ","%","}">>) EXCEPT !.blocks[n - 1].seen_default = TRUE]

start_when(k, tag) ==
  LET n        == Len(k.blocks)
      case_tag == IF n >= 2 THEN k.blocks[n - 1] ELSE NoTag
  IN  IF case_tag.kind = "none" \/ case_tag.name # <<"c","a","s","e">>
      THEN parser_error(k, "tag not child of case tag")
      ELSE IF tag.name = <<"w","h","e","n">>
      THEN IF case_tag.seen_default
           THEN parser_error(k, "when tag after default tag")
           ELSE [write(k, <<"{","%"," ">>
                          \o (IF case_tag.seen_when THEN <<"e","l","i","f">> ELSE <<"i","f">>)
                          \o <<" ">> \o case_tag.var \o <<" ","=","="," ">> \o tag.head \o <<" ","%","}">>)
                   EXCEPT !.blocks[n - 1].seen_when = TRUE]
      ELSE IF case_tag.seen_default
           THEN parser_error(k, "duplicate default tag")
           ELSE IF ~case_tag.seen_when
           THEN parser_error(k, "default tag before when tag")
           ELSE [write(k, <<"{","%"," ","e","l","s","e"," ","%","}">>) EXCEPT !.blocks[n - 1].seen_default = TRUE]

start_case(k, tag) ==
  LET n == Len(k.blocks)
  IN  [put_tmpvar(k, tag.head)
         EXCEPT !.blocks[n] =
           [kind |-> "control", name |-> tag.name, head |-> tag.head,
            var |-> tmpvar_name(k), seen_when |-> FALSE, seen_default |-> FALSE]]

\* start_block without the flush or dismissal of a deferred close
start_block_unflushed(k0, tag, items) ==
  IF k0.raised # "" THEN k0
  ELSE
  LET k  == log(k0, [ev |-> "start_block", tag |-> tag])
      k2 == [k EXCEPT !.blocks = Append(@, tag)]
  IN  IF tag.kind = "html" THEN start_html(k2, tag, items)
      ELSE IF tag.name = <<"c","a","s","e">> THEN start_case(k2, tag)
      ELSE IF tag.name \in {<<"w","h","e","n">>, <<"d","e","f","a","u","l","t">>} THEN start_when(k2, tag)
      ELSE write(k2, control_blocks_start(tag))

\* items: the order in which tag.attr.iteritems() yields the remaining attributes
start_block(k0, tag, items) ==
  IF k0.raised # "" THEN k0
  ELSE
  LET k  == log(k0, [ev |-> "start_block", tag |-> tag])
      k1 == IF tag.name \in {<<"e","l","i","f">>, <<"e","l","s","e">>} THEN dismiss_endif(k) ELSE put_endif(k)
      k2 == [k1 EXCEPT !.blocks = Append(@, tag)]
  IN  IF tag.kind = "html" THEN start_html(k2, tag, items)
      ELSE IF tag.name = <<"c","a","s","e">> THEN start_case(k2, tag)
      ELSE IF tag.name \in {<<"w","h","e","n">>, <<"d","e","f","a","u","l","t">>} THEN start_when(k2, tag)
      ELSE write(k2, control_blocks_start(tag))

end_block(k0) ==
  IF k0.raised # "" THEN k0
  ELSE IF k0.blocks = <<>> THEN [k0 EXCEPT !.raised = "IndexError"]
  ELSE
  LET k   == log(k0, [ev |-> "end_block"])
      n   == Len(k.blocks)
      tag == k.blocks[n]
      k1  == [k EXCEPT !.blocks = SubSeq(@, 1, n - 1)]
  IN  IF tag.kind = "html" THEN write(k1, <<"<","/">> \o tag.name \o <<">">>)
      ELSE IF tag.name \in {<<"i","f">>, <<"e","l","i","f">>}
      THEN [k1 EXCEPT !.deferred_endif = <<<<"{","%"," ","e","n","d","i","f"," ","%","}">>, <<>>>>]
      ELSE IF tag.name = <<"c","a","s","e">>
      THEN IF ~tag.seen_when THEN parser_error(k1, "case tag has no when child")
           ELSE write(k1, <<"{","%"," ","e","n","d","i","f"," ","%","}">>)
      ELSE IF tag.name \in {<<"w","h","e","n">>, <<"d","e","f","a","u","l","t">>} THEN k1
      ELSE write(k1, control_blocks_end(tag))

RECURSIVE end_blocks(_, _)
\* for k in range(0, n): self.compiler.end_block()
end_blocks(k, n) == IF n <= 0 THEN k ELSE end_blocks(end_block(k), n - 1)

literal_(k, s) == write(put_endif(k), s)

literal(k0, s) ==
  IF k0.raised # "" THEN k0
  ELSE literal_(log(k0, [ev |-> "literal", text |-> s]), s)

newlines(k0, s) ==
  IF k0.raised # "" THEN k0
  ELSE LET k == log(k0, [ev |-> "newlines", text |-> s])
       IN  IF k.deferred_endif # <<>>
           THEN [k EXCEPT !.deferred_endif[2] = s]
           ELSE literal_(k, s)

Compiler_end(k0) ==
  IF k0.raised # "" THEN k0
  ELSE put_endif(log(k0, [ev |-> "end"]))

(***************************************************************************)
(* The parser states, jade/parse.py.  Each state function is an operator   *)
(* that yields the outcome of one call as a record: the state returned     *)
(* (next), the cursor, the parser fields, the emitter and the exception    *)
(* raised, if any.                                                         *)
(***************************************************************************)
None == <<"None">>

NoErr == [cls |-> "none"]

Outcome ==
  [next |-> state, c |-> Cursor, il |-> indent_levels, ib |-> indented_blocks,
   tt |-> this_tag, key |-> this_tag_attr_key, vl |-> verbatim_leader,
   k |-> Emitter, err |-> NoErr]

Last(s) == s[Len(s)]

control_tag_aliases(name) ==
  CASE name = <<"e","l","s","e"," ","i","f">> -> <<"e","l","i","f">>
    [] name = <<"!","!","!">> -> <<"d","o","c","t","y","p","e">>
    [] name = <<"e","a","c","h">> -> <<"f","o","r">>
    [] name = <<"b","l","o","c","k"," ","a","p","p","e","n","d">> -> <<"a","p","p","e","n","d">>
    [] name = <<"b","l","o","c","k"," ","p","r","e","p","e","n","d">> -> <<"p","r","e","p","e","n","d">>
    [] OTHER -> name

\* the list with the keywords in front of their aliases
control_tags_keywords_first ==
  << <<"/","/">>, <<"d","o","c","t","y","p","e">>, <<"e","x","t","e","n","d","s">>, <<"i","f">>, <<"e","l","i","f">>, <<"e","l","s","e">>, <<"f","o","r">>,
     <<"b","l","o","c","k">>, <<"a","p","p","e","n","d">>, <<"p","r","e","p","e","n","d">>,
     <<"e","l","s","e"," ","i","f">>, <<"!","!","!">>, <<"e","a","c","h">>, <<"b","l","o","c","k"," ","a","p","p","e","n","d">>, <<"b","l","o","c","k"," ","p","r","e","p","e","n","d">> >>

\* the aliases come first; no keyword of the list is a prefix of an alias
\* that follows it, so the order among the aliases does not matter
control_tags ==
  << <<"e","l","s","e"," ","i","f">>, <<"!","!","!">>, <<"e","a","c","h">>, <<"b","l","o","c","k"," ","a","p","p","e","n","d">>, <<"b","l","o","c","k"," ","p","r","e","p","e","n","d">>,
     <<"/","/">>, <<"d","o","c","t","y","p","e">>, <<"e","x","t","e","n","d","s">>, <<"i","f">>, <<"e","l","i","f">>, <<"e","l","s","e">>, <<"f","o","r">>,
     <<"b","l","o","c","k">>, <<"a","p","p","e","n","d">>, <<"p","r","e","p","e","n","d">> >>

\* a state function without the decorator
allow_eof_unwrapped(f) == f

allow_eof(f) == IF off_end(Cursor) THEN [Outcome EXCEPT !.next = "end"] ELSE f

RECURSIVE walk(_, _)
\* the level at which the loop of indent stops, 0 if it runs off the list
walk(j, txt) ==
  IF j = 0 THEN 0
  ELSE IF ~has_proper_prefix(indent_levels[j], txt) THEN j
  ELSE walk(j - 1, txt)

RECURSIVE sum(_, _)
sum(s, from) == IF from > Len(s) THEN 0 ELSE s[from] + sum(s, from + 1)

\* indent without the removal of the indent levels a dedent leaves
indent_state_untrimmed ==
  LET c1  == accept_run(Cursor, {"\n"})
      nl  == Slice(pos, c1.pos)
      c2  == _accept_inline_whitespace(c1)
      txt == Slice(c1.pos, c2.pos)
      c3  == drop(c2)
      i   == walk(Len(indent_levels), txt)
      blocks_to_close == sum(indented_blocks, i)
  IN  IF has_proper_prefix(txt, Last(indent_levels))
      THEN [Outcome EXCEPT !.c = c3, !.next = "tag",
                           !.il = Append(indent_levels, txt),
                           !.ib = Append(indented_blocks, 0),
                           !.k = newlines(Emitter, nl)]
      ELSE IF i = 0
      THEN [Outcome EXCEPT !.c = c3, !.err = [cls |-> "IndexError"]]
      ELSE IF indent_levels[i] # txt
      THEN [Outcome EXCEPT !.c = c3,
                           !.err = error(c3, "Bad indentation", "LexError")]
      ELSE [Outcome EXCEPT !.c = c3, !.next = "tag",
                           !.il = indent_levels,
                           !.ib = SubSeq(indented_blocks, 1, i - 1) \o <<0>>,
                           !.k = newlines(end_blocks(Emitter, blocks_to_close), nl)]

\* indent without the test of the level the dedent stops at
indent_state_unchecked ==
  LET c1  == accept_run(Cursor, {"\n"})
      nl  == Slice(pos, c1.pos)
      c2  == _accept_inline_whitespace(c1)
      txt == Slice(c1.pos, c2.pos)
      c3  == drop(c2)
      i   == walk(Len(indent_levels), txt)
      blocks_to_close == sum(indented_blocks, i)
  IN  IF has_proper_prefix(txt, Last(indent_levels))
      THEN [Outcome EXCEPT !.c = c3, !.next = "tag",
                           !.il = Append(indent_levels, txt),
                           !.ib = Append(indented_blocks, 0),
                           !.k = newlines(Emitter, nl)]
      ELSE IF i = 0
      THEN [Outcome EXCEPT !.c = c3, !.err = [cls |-> "IndexError"]]
      ELSE IF FALSE
      THEN [Outcome EXCEPT !.c = c3,
                           !.err = error(c3, "Bad indentation", "LexError")]
      ELSE [Outcome EXCEPT !.c = c3, !.next = "tag",
                           !.il = SubSeq(indent_levels, 1, i),
                           !.ib = SubSeq(indented_blocks, 1, i - 1) \o <<0>>,
                           !.k = newlines(end_blocks(Emitter, blocks_to_close), nl)]

indent_state ==
  LET c1  == accept_run(Cursor, {"\n"})
      nl  == Slice(pos, c1.pos)
      c2  == _accept_inline_whitespace(c1)
      txt == Slice(c1.pos, c2.pos)
      c3  == drop(c2)
      i   == walk(Len(indent_levels), txt)
      blocks_to_close == sum(indented_blocks, i)
  IN  IF has_proper_prefix(txt, Last(indent_levels))
      THEN [Outcome EXCEPT !.c = c3, !.next = "tag",
                           !.il = Append(indent_levels, txt),
                           !.ib = Append(indented_blocks, 0),
                           !.k = newlines(Emitter, nl)]
      ELSE IF i = 0
      THEN [Outcome EXCEPT !.c = c3, !.err = [cls |-> "IndexError"]]
      ELSE IF indent_levels[i] # txt
      THEN [Outcome EXCEPT !.c = c3,
                           !.err = error(c3, "Bad indentation", "LexError")]
      ELSE [Outcome EXCEPT !.c = c3, !.next = "tag",
                           !.il = SubSeq(indent_levels, 1, i),
                           !.ib = SubSeq(indented_blocks, 1, i - 1) \o <<0>>,
                           !.k = newlines(end_blocks(Emitter, blocks_to_close), nl)]

\* tag_control without the test of the terminator: a keyword is taken
\* whatever follows it
tag_control_unterminated(o, c) ==
  LET name == Accepted(c, control_tags)
      c1   == accept(c, control_tags)
      terminator == peek(c1, 1)
      rolled == FALSE
      c2   == IF name = <<>> THEN c ELSE rollback(c1)
      \* control tag taken
      d1   == _advance_line(_drop_inline_whitespace(c1))
      \* an ordinary HTML tag
      h1   == accept_run(c2, valid_in_tags)
      rune == peek(h1, 1)
  IN  IF name # <<>> /\ ~rolled
      THEN [o EXCEPT !.c = conclude(d1), !.next = "indent",
                     !.k = start_block(Emitter,
                             ControlTag(control_tag_aliases(name), Lexeme(d1)), <<>>)]
      ELSE IF Slice(c2.pos, h1.pos) # <<>>
      THEN [o EXCEPT !.c = conclude(h1), !.next = "maybe_qualifier",
                     !.tt = HTMLTag(Lexeme(h1))]
      ELSE IF rune = <<>> \/ rune[1] \in {".", "#", "("}
      THEN [o EXCEPT !.c = h1, !.next = "qualifier", !.tt = HTMLTag(<<"d","i","v">>)]
      ELSE [o EXCEPT !.c = h1, !.err = error(h1, "No valid tag found", "LexError")]

\* the dispatch of tag from the control tags on, at cursor c
tag_control(o, c) ==
  LET name == Accepted(c, control_tags)
      c1   == accept(c, control_tags)
      terminator == peek(c1, 1)
      rolled == /\ name # <<>>
                /\ Last(name) \in valid_in_tags
                /\ terminator # <<>>
                /\ terminator[1] \in valid_in_tags
      c2   == IF name = <<>> THEN c ELSE rollback(c1)
      \* control tag taken
      d1   == _advance_line(_drop_inline_whitespace(c1))
      \* an ordinary HTML tag
      h1   == accept_run(c2, valid_in_tags)
      rune == peek(h1, 1)
  IN  IF name # <<>> /\ ~rolled
      THEN [o EXCEPT !.c = conclude(d1), !.next = "indent",
                     !.k = start_block(Emitter,
                             ControlTag(control_tag_aliases(name), Lexeme(d1)), <<>>)]
      ELSE IF Slice(c2.pos, h1.pos) # <<>>
      THEN [o EXCEPT !.c = conclude(h1), !.next = "maybe_qualifier",
                     !.tt = HTMLTag(Lexeme(h1))]
      ELSE IF rune = <<>> \/ rune[1] \in {".", "#", "("}
      THEN [o EXCEPT !.c = h1, !.next = "qualifier", !.tt = HTMLTag(<<"d","i","v">>)]
      ELSE [o EXCEPT !.c = h1, !.err = error(h1, "No valid tag found", "LexError")]

\* the dispatch of tag from the pipe on, at cursor c
tag_pipe(o, c) ==
  IF Accepted(c, <<<<"|">>>>) # <<>>
  THEN [o EXCEPT !.c = drop(accept(c, <<<<"|">>>>)), !.next = "single_line_literal",
                 !.k = start_block(Emitter, ControlTag(<<"|">>, None), <<>>)]
  ELSE tag_control(o, c)

\* tag without the count of the block it opens
tag_state_uncounted ==
  LET o  == Outcome
      c  == Cursor
      leaders == <<<<"/","/","-">>, <<"-">>, <<"=">>, <<"!","=">>>>
      v1 == accept(c, leaders)
      f1 == accept(c, <<<<":">>>>)
      f2 == accept_run(f1, valid_in_tags)
  IN  IF Accepted(c, leaders) # <<>>
      THEN [o EXCEPT !.c = conclude(v1), !.next = "verbatim",
                     !.k = start_block(Emitter, ControlTag(Lexeme(v1), None), <<>>)]
      ELSE IF Accepted(c, <<<<":">>>>) # <<>>
      THEN IF Slice(f1.pos, f2.pos) # <<>>
           THEN [o EXCEPT !.c = conclude(f2), !.next = "verbatim",
                          !.k = start_block(Emitter,
                                  ControlTag(<<":">>, Tail(Lexeme(f2))), <<>>)]
           ELSE tag_pipe(o, rollback(f2))
      ELSE tag_pipe(o, c)

tag_state ==
  LET o  == [Outcome EXCEPT !.ib[Len(indented_blocks)] = @ + 1]
      c  == Cursor
      leaders == <<<<"/","/","-">>, <<"-">>, <<"=">>, <<"!","=">>>>
      v1 == accept(c, leaders)
      f1 == accept(c, <<<<":">>>>)
      f2 == accept_run(f1, valid_in_tags)
  IN  IF Accepted(c, leaders) # <<>>
      THEN [o EXCEPT !.c = conclude(v1), !.next = "verbatim",
                     !.k = start_block(Emitter, ControlTag(Lexeme(v1), None), <<>>)]
      ELSE IF Accepted(c, <<<<":">>>>) # <<>>
      THEN IF Slice(f1.pos, f2.pos) # <<>>
           THEN [o EXCEPT !.c = conclude(f2), !.next = "verbatim",
                          !.k = start_block(Emitter,
                                  ControlTag(<<":">>, Tail(Lexeme(f2))), <<>>)]
           ELSE tag_pipe(o, rollback(f2))
      ELSE tag_pipe(o, c)

RECURSIVE verbatim_loop(_)
verbatim_loop(c) ==
  LET c2 == accept_run(c, {"\n"})
      c3 == _accept_inline_whitespace(c2)
      indent == Slice(c2.pos, c3.pos)
      c4 == backup(c3, Len(indent) + 1)
  IN  IF ~has_proper_prefix(indent, Last(indent_levels))
      THEN [Outcome EXCEPT !.c = conclude(c4), !.next = "indent",
                           !.k = literal(Emitter, Lexeme(c4))]
      ELSE verbatim_loop(_advance_line(c3))

verbatim_state == verbatim_loop(_advance_line(_drop_inline_whitespace(Cursor)))

maybe_qualifier_state ==
  LET rune  == peek(Cursor, 1)
      runes == peek(Cursor, 2)
  IN  IF rune = <<>> \/ rune[1] \in {"#", "("}
      THEN [Outcome EXCEPT !.next = "qualifier"]
      ELSE IF rune = <<".">> /\ Len(runes) = 2 /\ runes[2] \in valid_in_idents
      THEN [Outcome EXCEPT !.next = "qualifier"]
      ELSE [Outcome EXCEPT !.next = "maybe_tag_concluder"]

qualifier_state ==
  LET valids == <<<<".">>, <<"#">>, <<"(">>>>
      rune   == Accepted(Cursor, valids)
      c1     == drop(accept(Cursor, valids))
      c2     == _accept_ident(c1)
  IN  IF rune = <<>>
      THEN [Outcome EXCEPT !.err = error(Cursor, "Require one of", "LexerBug")]
      ELSE IF rune = <<"#">>
      THEN IF Slice(c1.pos, c2.pos) = <<>>
           THEN [Outcome EXCEPT !.c = c2,
                                !.err = error(c2, "No valid id found", "LexError")]
           ELSE [Outcome EXCEPT !.c = conclude(c2), !.next = "maybe_qualifier",
                                !.tt.id_ = Lexeme(c2)]
      ELSE IF rune = <<".">>
      THEN [Outcome EXCEPT !.c = conclude(c2), !.next = "maybe_qualifier",
                           !.tt.class_ = Lexeme(c2)]
      ELSE [Outcome EXCEPT !.c = c1, !.next = "maybe_attr_key"]

maybe_attr_key_state ==
  LET c0 == _drop_inline_whitespace(Cursor)
      c1 == accept_run(c0, valid_in_keys)
  IN  IF peek(c0, 1) = <<")">>
      THEN [Outcome EXCEPT !.c = drop(c0), !.next = "maybe_qualifier"]
      ELSE IF Slice(c0.pos, c1.pos) = <<>>
      THEN [Outcome EXCEPT !.c = c1,
                           !.err = error(c1, "No valid attribute key found", "LexError")]
      ELSE [Outcome EXCEPT !.c = conclude(c1), !.next = "after_attr_key",
                           !.key = Lexeme(c1)]

after_attr_key_state ==
  LET c0   == _drop_inline_whitespace(Cursor)
      rune == peek(c0, 1)
      c1   == drop(advance(c0, 1))
  IN  IF rune = <<"=">> THEN [Outcome EXCEPT !.c = c1, !.next = "expr"]
      ELSE IF rune = <<",">> THEN [Outcome EXCEPT !.c = c1, !.next = "maybe_attr_key"]
      ELSE IF rune = <<")">> THEN [Outcome EXCEPT !.c = c1, !.next = "maybe_qualifier"]
      ELSE [Outcome EXCEPT !.c = c1,
                           !.err = error(c1, "Bad character after attribute key",
                                         "LexError")]

opener_of(rune) ==
  CASE rune = ")" -> "(" [] rune = "]" -> "[" [] rune = "}" -> "{"

RECURSIVE expr_loop_flat(_, _, _)
\* expr_loop with a terminator that ends the value at any bracket depth
expr_loop_flat(c, quote, enclose) ==
  LET rune == peek(c, 1)
      c1   == advance(c, 1)
      c2   == advance(c1, 1)
  IN  IF rune = <<>>
      THEN [Outcome EXCEPT !.c = c1,
                           !.err = error(c1, "Unterminated Python expression",
                                         "LexError")]
      ELSE IF quote # ""
      THEN IF rune[1] = quote THEN expr_loop_flat(c1, "", enclose)
           ELSE IF rune[1] = "\\"
           THEN IF peek(c1, 1) = <<>>
                THEN [Outcome EXCEPT !.c = c2,
                                     !.err = error(c2, "Unterminated string literal",
                                                   "LexError")]
                ELSE expr_loop_flat(c2, quote, enclose)
           ELSE expr_loop_flat(c1, quote, enclose)
      ELSE IF rune[1] \in {",", ")"}
      THEN [Outcome EXCEPT
              !.c = conclude(c1),
              !.next = IF rune[1] = "," THEN "maybe_attr_key" ELSE "maybe_qualifier",
              !.tt.attr = attr_set(this_tag.attr, this_tag_attr_key,
                                   SubSeq(Lexeme(c1), 1, Len(Lexeme(c1)) - 1))]
      ELSE IF rune[1] \in {"\"", "'"} THEN expr_loop_flat(c1, rune[1], enclose)
      ELSE IF rune[1] \in {"(", "[", "{"} THEN expr_loop_flat(c1, quote, Append(enclose, rune[1]))
      ELSE IF rune[1] \in {")", "]", "}"}
      THEN IF enclose = <<>>
           THEN [Outcome EXCEPT !.c = c1,
                                !.err = error(c1, "No opening to close", "LexError")]
           ELSE IF Last(enclose) # opener_of(rune[1])
           \* the message is built with two arguments for one %r
           THEN [Outcome EXCEPT !.c = c1, !.err = [cls |-> "TypeError"]]
           ELSE expr_loop_flat(c1, quote, SubSeq(enclose, 1, Len(enclose) - 1))
      ELSE expr_loop_flat(c1, quote, enclose)

RECURSIVE expr_loop(_, _, _)
\* quote: "" for None; enclose: the sequence of open brackets
expr_loop(c, quote, enclose) ==
  LET rune == peek(c, 1)
      c1   == advance(c, 1)
      c2   == advance(c1, 1)
  IN  IF rune = <<>>
      THEN [Outcome EXCEPT !.c = c1,
                           !.err = error(c1, "Unterminated Python expression",
                                         "LexError")]
      ELSE IF quote # ""
      THEN IF rune[1] = quote THEN expr_loop(c1, "", enclose)
           ELSE IF rune[1] = "\\"
           THEN IF peek(c1, 1) = <<>>
                THEN [Outcome EXCEPT !.c = c2,
                                     !.err = error(c2, "Unterminated string literal",
                                                   "LexError")]
                ELSE expr_loop(c2, quote, enclose)
           ELSE expr_loop(c1, quote, enclose)
      ELSE IF rune[1] \in {",", ")"} /\ enclose = <<>>
      THEN [Outcome EXCEPT
              !.c = conclude(c1),
              !.next = IF rune[1] = "," THEN "maybe_attr_key" ELSE "maybe_qualifier",
              !.tt.attr = attr_set(this_tag.attr, this_tag_attr_key,
                                   SubSeq(Lexeme(c1), 1, Len(Lexeme(c1)) - 1))]
      ELSE IF rune[1] \in {"\"", "'"} THEN expr_loop(c1, rune[1], enclose)
      ELSE IF rune[1] \in {"(", "[", "{"} THEN expr_loop(c1, quote, Append(enclose, rune[1]))
      ELSE IF rune[1] \in {")", "]", "}"}
      THEN IF enclose = <<>>
           THEN [Outcome EXCEPT !.c = c1,
                                !.err = error(c1, "No opening to close", "LexError")]
           ELSE IF Last(enclose) # opener_of(rune[1])
           \* the message is built with two arguments for one %r
           THEN [Outcome EXCEPT !.c = c1, !.err = [cls |-> "TypeError"]]
           ELSE expr_loop(c1, quote, SubSeq(enclose, 1, Len(enclose) - 1))
      ELSE expr_loop(c1, quote, enclose)

expr_state == expr_loop(_drop_inline_whitespace(Cursor), "", <<>>)

\* items: the order in which start_block iterates the attributes of this_tag
maybe_tag_concluder_state(items) ==
  LET o  == [Outcome EXCEPT !.k = start_block(Emitter, this_tag, items),
                            !.tt.attr = remaining_attr(this_tag)]
      c  == Cursor
  IN  IF Accepted(c, <<<<":">>>>) # <<>>
      THEN [o EXCEPT !.c = _drop_inline_whitespace(drop(accept(c, <<<<":">>>>))),
                     !.next = "tag"]
      ELSE IF Accepted(c, <<<<"!","=">>, <<"=">>>>) # <<>>
      THEN [o EXCEPT !.c = backup(accept(c, <<<<"!","=">>, <<"=">>>>), 1), !.next = "tag"]
      ELSE IF Accepted(c, <<<<".">>>>) # <<>>
      THEN [o EXCEPT !.c = conclude(accept(c, <<<<".">>>>)), !.next = "verbatim",
                     !.vl = Lexeme(accept(c, <<<<".">>>>))]
      ELSE [o EXCEPT !.next = "single_line_literal"]

single_line_literal_state ==
  LET c1 == _advance_line(_drop_inline_whitespace(Cursor))
  IN  [Outcome EXCEPT !.c = conclude(c1), !.next = "indent",
                      !.k = IF Lexeme(c1) # <<>> THEN literal(Emitter, Lexeme(c1))
                            ELSE Emitter]

end_state == [Outcome EXCEPT !.next = "done", !.k = Compiler_end(Emitter)]

(***************************************************************************)
(* The trampoline, AbstractLexer.__call__: it calls the current state      *)
(* function while there is one, after checking start = pos.  Call(f, o)    *)
(* is one iteration with outcome o of state function f.                    *)
(***************************************************************************)
Halted == state \in {"done", "raised"}

Call(f, o) ==
  /\ state = f
  /\ start = pos
  /\ sink = "buffer" => nsteps < MaxSteps
  /\ state' = IF o.err # NoErr \/ o.k.raised # "" THEN "raised" ELSE o.next
  /\ err' = IF o.err # NoErr THEN o.err
            ELSE IF o.k.raised # "" THEN [cls |-> o.k.raised]
            ELSE err
  /\ start' = o.c.start
  /\ pos' = o.c.pos
  /\ trail' = o.c.trail
  /\ indent_levels' = o.il
  /\ indented_blocks' = o.ib
  /\ this_tag' = o.tt
  /\ this_tag_attr_key' = o.key
  /\ verbatim_leader' = o.vl
  /\ blocks' = o.k.blocks
  /\ deferred_endif' = o.k.deferred_endif
  /\ tmpvar_count' = o.k.tmpvar_count
  /\ stream' = o.k.stream
  /\ events' = o.k.events
  /\ nsteps' = IF sink = "buffer" THEN nsteps + 1 ELSE nsteps
  /\ tick' = 1 - tick
  /\ UNCHANGED <<text, sink>>

indent == Call("indent", allow_eof(indent_state))

tag == Call("tag", allow_eof(tag_state))

verbatim == Call("verbatim", verbatim_state)

maybe_qualifier == Call("maybe_qualifier", allow_eof(maybe_qualifier_state))

qualifier == Call("qualifier", qualifier_state)

maybe_attr_key == Call("maybe_attr_key", maybe_attr_key_state)

after_attr_key == Call("after_attr_key", after_attr_key_state)

expr == Call("expr", expr_state)

maybe_tag_concluder ==
  /\ state = "maybe_tag_concluder"
  /\ \E items \in iteritems(remaining_attr(this_tag)) :
       Call("maybe_tag_concluder", maybe_tag_concluder_state(items))

single_line_literal == Call("single_line_literal", single_line_literal_state)

end == Call("end", end_state)

\* raise LexerBug('State starts with inconsistent state'): LexError.__init__
\* takes msg, pos and line, so the raise itself fails with a TypeError
inconsistent_state ==
  /\ ~Halted
  /\ start # pos
  /\ sink = "buffer" => nsteps < MaxSteps
  /\ state' = "raised"
  /\ err' = [cls |-> "TypeError"]
  /\ nsteps' = IF sink = "buffer" THEN nsteps + 1 ELSE nsteps
  /\ tick' = 1 - tick
  /\ UNCHANGED <<text, start, pos, indent_levels, indented_blocks, this_tag,
                 this_tag_attr_key, verbatim_leader, blocks, deferred_endif,
                 tmpvar_count, stream, events, trail, sink>>

\* the state after Parser(text, Compiler(stream)) with a stream of kind s
Constructed(s) ==
  /\ sink = s
  /\ tick = 0
  /\ text \in Inputs
  /\ state = "tag"
  /\ start = 0
  /\ pos = 0
  /\ indent_levels = << <<>> >>
  /\ indented_blocks = <<0>>
  /\ this_tag = NoTag
  /\ this_tag_attr_key = None
  /\ verbatim_leader = None
  /\ blocks = <<>>
  /\ deferred_endif = <<>>
  /\ tmpvar_count = 0
  /\ stream = <<>>
  /\ events = <<>>
  /\ trail = <<>>
  /\ err = NoErr
  /\ nsteps = 0

Init == Constructed("buffer")

Next ==
  \/ indent
  \/ tag
  \/ verbatim
  \/ maybe_qualifier
  \/ qualifier
  \/ maybe_attr_key
  \/ after_attr_key
  \/ expr
  \/ maybe_tag_concluder
  \/ single_line_literal
  \/ end
  \/ inconsistent_state

Spec == Init /\ [][Next]_vars

\* The while loop of __call__: one more iteration while the state is not
\* None.  Every step of Next is such an iteration, and one is possible
\* exactly when a step of Next is.
iteration ==
  /\ ~Halted
  /\ sink = "buffer" => nsteps < MaxSteps
  /\ tick' = 1 - tick

\* The runs with the output discarded.  Without the stream, the log and the
\* step count a run has finitely many states, so a run that never halts is
\* a cycle.  A sequential program keeps running: the loop is not suspended
\* forever.
FairSpec == Constructed("null") /\ [][Next]_vars /\ WF_tick(iteration)

(***************************************************************************)
(* The emitter alone, jade/compile.py: a Compiler as its constructor       *)
(* leaves it, called with any sequence of start_block(), end_block() and   *)
(* literal() events, the ControlTags of the case construct among them      *)
(* (the parser of this repository never makes those tags, see              *)
(* control_tags).  start() is not called, as in main, so that self.parser  *)
(* is not set.                                                             *)
(***************************************************************************)
\* the tags the events carry
EmitTags ==
  { ControlTag(<<"c","a","s","e">>, <<"x">>), ControlTag(<<"w","h","e","n">>, <<"a">>),
    ControlTag(<<"d","e","f","a","u","l","t">>, None), ControlTag(<<"i","f">>, <<"c">>), HTMLTag(<<"p">>) }

\* one call of an emitter method that returns the emitter k or raises
Emit(k) ==
  /\ state = "emitting"
  /\ nsteps < MaxEvents
  /\ state' = IF k.raised # "" THEN "raised" ELSE "emitting"
  /\ err' = IF k.raised # "" THEN [cls |-> k.raised] ELSE err
  /\ blocks' = k.blocks
  /\ deferred_endif' = k.deferred_endif
  /\ tmpvar_count' = k.tmpvar_count
  /\ stream' = k.stream
  /\ events' = k.events
  /\ nsteps' = nsteps + 1
  /\ tick' = 1 - tick
  /\ UNCHANGED <<text, start, pos, indent_levels, indented_blocks, this_tag,
                 this_tag_attr_key, verbatim_leader, trail, sink>>

emit_start_block == \E tg \in EmitTags : Emit(start_block(Emitter, tg, <<>>))

emit_end_block == Emit(end_block(Emitter))

emit_literal == Emit(literal(Emitter, <<"t">>))

\* the state after Compiler(stream), with no parser running
EmitterInit ==
  /\ sink = "buffer"
  /\ tick = 0
  /\ text = <<>>
  /\ state = "emitting"
  /\ start = 0
  /\ pos = 0
  /\ indent_levels = << <<>> >>
  /\ indented_blocks = <<0>>
  /\ this_tag = NoTag
  /\ this_tag_attr_key = None
  /\ verbatim_leader = None
  /\ blocks = <<>>
  /\ deferred_endif = <<>>
  /\ tmpvar_count = 0
  /\ stream = <<>>
  /\ events = <<>>
  /\ trail = <<>>
  /\ err = NoErr
  /\ nsteps = 0

EmitterNext == emit_start_block \/ emit_end_block \/ emit_literal

EmitterSpec == EmitterInit /\ [][EmitterNext]_vars

(***************************************************************************)
(* Properties.                                                             *)
(***************************************************************************)
\* occurrences of the text pat in the text s
Count(s, pat) ==
  Cardinality({i \in 1..(Len(s) - Len(pat) + 1) : SubSeq(s, i, i + Len(pat) - 1) = pat})

endswith(s, suffix) ==
  /\ Len(suffix) <= Len(s)
  /\ SubSeq(s, Len(s) - Len(suffix) + 1, Len(s)) = suffix

\* the parse completed without raising: the end state has returned None
Completed == state = "done"

\* the names of the HTML tags start_block has been called for
StartedHTML ==
  {events[i].tag.name : i \in {j \in 1..Len(events) :
      events[j].ev = "start_block" /\ events[j].tag.kind = "html"}}

\* C1: whenever the end state is about to call end() or has called it, the
\* open-block stack of the emitter is empty.
C1_BlocksEmptyAtEnd == state \in {"end", "done"} => blocks = <<>>

\* C2: when the parse has completed, the stream holds as many if, for, block
\* and filter openers as endif, endfor, endblock and endfilter closers.
C2_ControlBalance ==
  Completed =>
    /\ Count(stream, <<"{","%"," ","i","f"," ">>) = Count(stream, <<"{","%"," ","e","n","d","i","f"," ","%","}">>)
    /\ Count(stream, <<"{","%"," ","f","o","r"," ">>) = Count(stream, <<"{","%"," ","e","n","d","f","o","r"," ","%","}">>)
    /\ Count(stream, <<"{","%"," ","b","l","o","c","k"," ">>) = Count(stream, <<"{","%"," ","e","n","d","b","l","o","c","k"," ","%","}">>)
    /\ Count(stream, <<"{","%"," ","f","i","l","t","e","r"," ">>) = Count(stream, <<"{","%"," ","e","n","d","f","i","l","t","e","r"," ","%","}">>)

\* C3: when the parse has completed, for every HTML tag name the stream
\* holds as many openers <name> or <name ...> as closers </name>.
C3_HTMLBalance ==
  Completed =>
    \A name \in StartedHTML :
      Count(stream, <<"<">> \o name \o <<">">>) + Count(stream, <<"<">> \o name \o <<" ">>)
        = Count(stream, <<"<","/">> \o name \o <<">">>)

\* C4: every run of the trampoline halts: it reaches the end state's return
\* of None or raises.
C4_Halts == <>Halted

\* C5: when the parse has completed, the stream holds as many newline
\* characters as the input.
C5_NewlinesPreserved ==
  Completed => Count(stream, <<"\n">>) = Count(text, <<"\n">>)

\* C6: whenever the trampoline is about to call a state function,
\* start = pos.
C6_StartEqualsPosOnEntry == ~Halted => start = pos

InRange(s, p) == 0 <= s /\ s <= p /\ p <= Len(text)

\* C7: 0 <= start <= pos <= len(text) after every cursor primitive a state
\* function has called, and between state functions.
C7_CursorInRange ==
  /\ InRange(start, pos)
  /\ \A i \in 1..Len(trail) : InRange(trail[i][1], trail[i][2])

\* C8: the call of end() leaves the deferred-close slot empty and appends to
\* the stream exactly the close that was pending, closer text first and its
\* trailing whitespace after it (nothing if none was pending).
C8_EndFlushesDeferred ==
  [][(state = "end" /\ state' = "done") =>
       /\ deferred_endif' = <<>>
       /\ stream' = stream \o (IF deferred_endif = <<>> THEN <<>>
                               ELSE deferred_endif[1] \o deferred_endif[2])]_vars

\* C8 witness: end() has run on a parse whose if block was closed by the
\* final newline, so that the endif and the newline were pending.
C8_Witness ==
  /\ Completed
  /\ text = <<"i","f"," ","x","\n">>
  /\ events[Len(events)].ev = "end"
  /\ deferred_endif = <<>>
  /\ stream = <<"{","%"," ","i","f"," ","x"," ","%","}","{","%"," ","e","n","d","i","f"," ","%","}","\n">>

SingleElementLine(t) ==
  /\ t # <<>>
  /\ \A i \in 1..Len(t) : t[i] # "\n"
  /\ \E n \in 1..Len(t) :
       /\ \A i \in 1..n : t[i] \in valid_in_tags
       /\ \A j \in 1..Len(control_tags) : SubSeq(t, 1, n) # control_tags[j]
       /\ n = Len(t) \/ t[n + 1] = " "

\* C10: when the end state is reached on a single-element line, start_block
\* has been called for an HTML tag.
C10_SingleElementEmitted ==
  (state \in {"end", "done"} /\ SingleElementLine(text)) => StartedHTML # {}

RECURSIVE SkipWhile(_, _, _)
\* the offset of the first character of t at or after offset p that is not
\* in valid (the length of t if there is none)
SkipWhile(t, p, valid) ==
  IF p < Len(t) /\ t[p + 1] \in valid THEN SkipWhile(t, p + 1, valid) ELSE p

\* the offset of the end of the line that offset p of t lies in
LineEnd(t, p) == SkipWhile(t, p, {t[i] : i \in 1..Len(t)} \ {"\n"})

RECURSIVE RegionEnd(_, _, _)
\* the offset at which the verbatim region that holds offset p of t ends,
\* for the indent level cur: the end of input, or the end of the last line
\* before the first line whose indentation does not extend cur (the newline
\* in front of that line is left to the indent state)
RegionEnd(t, p, cur) ==
  LET e == LineEnd(t, p)
      n == SkipWhile(t, e, {"\n"})
      w == SkipWhile(t, n, inline_whitespace)
  IN  IF e >= Len(t) THEN Len(t)
      ELSE IF has_proper_prefix(SubSeq(t, n + 1, w), cur)
      THEN RegionEnd(t, w, cur)
      ELSE n - 1

\* the text of a verbatim region that starts at offset p: from the first
\* character after the inline whitespace to the end of the region
RegionText(t, p, cur) ==
  LET s0 == SkipWhile(t, p, inline_whitespace)
  IN  SubSeq(t, s0 + 1, RegionEnd(t, s0, cur))

\* C11: the verbatim state passes to literal() the whole text of its region,
\* from the first character after the leader's inline whitespace to the end
\* of the region's last line, also when the region ends at the end of input.
C11_VerbatimCopiedInFull ==
  [][(state = "verbatim" /\ state' = "indent") =>
       events' = Append(events,
         [ev |-> "literal",
          text |-> RegionText(text, pos, Last(indent_levels))])]_vars

\* C12: when after_attr_key leaves a key on ',' or ')' (no '='), the tag's
\* attr maps the key to the empty string, and the opener of 'a(b)' is
\* written with the attribute b="{{  |escape}}".
C12_BareKeyStored ==
  /\ [][(state = "after_attr_key" /\ state' \in {"maybe_attr_key", "maybe_qualifier"}) =>
          /\ has_key(this_tag'.attr, this_tag_attr_key)
          /\ attr_get(this_tag'.attr, this_tag_attr_key) = <<>>]_vars
  /\ []((Completed /\ text = <<"a","(","b",")","\n">>) => stream = <<"<","a"," ","b","=","\"","{","{"," "," ","|","e","s","c","a","p","e","}","}","\"",">","<","/","a",">","\n">>)

\* C13: a completed parse of an input whose first line is 'mixin ' and a
\* head has written the opener '{% macro <head> %}' first and holds the
\* closer '{% endmacro %}'.
C13_MixinCompiled ==
  (Completed /\ Len(text) > 6 /\ SubSeq(text, 1, 6) = <<"m","i","x","i","n"," ">>) =>
    LET opener == <<"{","%"," ","m","a","c","r","o"," ">> \o SubSeq(text, 7, LineEnd(text, 6)) \o <<" ","%","}">>
    IN  /\ Len(stream) >= Len(opener)
        /\ SubSeq(stream, 1, Len(opener)) = opener
        /\ Count(stream, <<"{","%"," ","e","n","d","m","a","c","r","o"," ","%","}">>) = 1

\* the alphanumeric run of the text at the cursor
TagRun == SubSeq(text, pos + 1, SkipWhile(text, pos, valid_in_tags))

\* a control keyword that ends in a tag character matches at the cursor and
\* a tag character follows it
KeywordInsideName ==
  LET name == Accepted(Cursor, control_tags)
  IN  /\ name # <<>>
      /\ Last(name) \in valid_in_tags
      /\ pos + Len(name) < Len(text)
      /\ text[pos + Len(name) + 1] \in valid_in_tags

\* C14: a step of the tag state at a keyword that is followed by a tag
\* character emits nothing and makes the alphanumeric run at the cursor the
\* name of an HTMLTag, continuing with the qualifiers.
C14_KeywordPrefixIsHTMLTag ==
  [][(state = "tag" /\ start = pos /\ KeywordInsideName /\ state' # "tag") =>
       /\ state' = "maybe_qualifier"
       /\ this_tag' = HTMLTag(TagRun)
       /\ events' = events
       /\ stream' = stream
       /\ pos' = pos + Len(TagRun)]_vars

\* C14 witness: 'iframe' has been read as the HTML tag iframe, with nothing
\* emitted for a control tag 'if'.
C14_Witness ==
  /\ text = <<"i","f","r","a","m","e","\n">>
  /\ state = "maybe_qualifier"
  /\ this_tag = HTMLTag(<<"i","f","r","a","m","e">>)
  /\ events = <<>>

RECURSIVE ExprEnd(_, _, _, _)
\* the offset of the first ',' or ')' of t at or after offset p that lies
\* outside every string literal and at bracket depth zero (the length of t
\* if there is none); quote is the open quote ("" for none), depth the
\* number of open brackets
ExprEnd(t, p, quote, depth) ==
  IF p >= Len(t) THEN Len(t)
  ELSE LET r == t[p + 1]
       IN  IF quote # ""
           THEN IF r = quote THEN ExprEnd(t, p + 1, "", depth)
                ELSE IF r = "\\" THEN ExprEnd(t, p + 2, quote, depth)
                ELSE ExprEnd(t, p + 1, quote, depth)
           ELSE IF r \in {",", ")"} /\ depth = 0 THEN p
           ELSE IF r \in {"\"", "'"} THEN ExprEnd(t, p + 1, r, depth)
           ELSE IF r \in {"(", "[", "{"} THEN ExprEnd(t, p + 1, quote, depth + 1)
           ELSE IF r \in {")", "]", "}"} THEN ExprEnd(t, p + 1, quote, depth - 1)
           ELSE ExprEnd(t, p + 1, quote, depth)

\* C15: a step of the expr state that returns the next state has ended the
\* value at the first ',' or ')' outside quotes and brackets, has recorded
\* under the key the text from after the leading inline whitespace to that
\* terminator, and continues after the terminator with maybe_attr_key on ','
\* and maybe_qualifier on ')'.
C15_ExprValueRecorded ==
  [][(state = "expr" /\ start = pos /\ state' \in {"maybe_attr_key", "maybe_qualifier"}) =>
       LET s0 == SkipWhile(text, pos, inline_whitespace)
           e  == ExprEnd(text, s0, "", 0)
       IN  /\ e < Len(text)
           /\ has_key(this_tag'.attr, this_tag_attr_key)
           /\ attr_get(this_tag'.attr, this_tag_attr_key) = SubSeq(text, s0 + 1, e)
           /\ pos' = e + 1
           /\ state' = IF text[e + 1] = "," THEN "maybe_attr_key"
                       ELSE "maybe_qualifier"]_vars

\* C15 witness: the value of x in 'a(x=f({"k":","}))' has been recorded
\* with its brackets, its quotes and the comma inside them.
C15_Witness ==
  /\ text = <<"a","(","x","=","f","(","{","\"","k","\"",":","\"",",","\"","}",")",")">>
  /\ state = "maybe_qualifier"
  /\ this_tag.attr = << <<<<"x">>, <<"f","(","{","\"","k","\"",":","\"",",","\"","}",")">>>> >>

\* C16: on the empty input the tag state goes directly to end and end
\* returns None; nothing is raised, the emitter is called for nothing but
\* end(), and the stream stays empty.
C16_EmptyInput ==
  text = <<>> =>
    /\ state \in {"tag", "end", "done"}
    /\ stream = <<>>
    /\ events = IF state = "done" THEN <<[ev |-> "end"]>> ELSE <<>>
    /\ blocks = <<>>
    /\ deferred_endif = <<>>

\* C16 witness: the parse of the empty input has completed.
C16_Witness ==
  /\ text = <<>>
  /\ Completed
  /\ events = <<[ev |-> "end"]>>
  /\ stream = <<>>

\* the number of end_block() calls of the step
EndBlocksCalled ==
  Cardinality({i \in (Len(events) + 1)..Len(events') : events'[i].ev = "end_block"})

\* the block that the next end_block() of emitter k pops
Top(k) == k.blocks[Len(k.blocks)]

\* C17: in every step, each end_block() that pops an if or elif tag finds
\* the deferred-close slot empty: no pending close is overwritten.
C17_DeferredNeverOverwritten ==
  [][\A j \in 0..(EndBlocksCalled - 1) :
       LET k == end_blocks(Emitter, j)
       IN  (Top(k).kind = "control" /\ Top(k).name \in {<<"i","f">>, <<"e","l","i","f">>}) =>
             k.deferred_endif = <<>>]_vars

\* C18: in every step, each end_block() that writes a closer finds no
\* deferred close pending: the endif of a block that was popped before is
\* in the stream before the closer of a block that encloses it.
C18_ClosersNested ==
  [][\A j \in 0..(EndBlocksCalled - 1) :
       LET k == end_blocks(Emitter, j)
       IN  ~(Top(k).kind = "control" /\ Top(k).name \in {<<"i","f">>, <<"e","l","i","f">>}) =>
             k.deferred_endif = <<>>]_vars

\* the start_block() event of the step, when that is the one call the step
\* makes
StartBlockCalled ==
  /\ Len(events') = Len(events) + 1
  /\ events'[Len(events')].ev = "start_block"
  /\ state' # "raised"

\* C19: a step that calls start_block(tag) appends to the stream the
\* pending close, written as its trailing whitespace alone for elif and
\* else and as the closer and the whitespace for any other tag (nothing
\* if none is pending), then the opener of the tag, and leaves the slot
\* empty.
C19_StartBlockFlushes ==
  [][StartBlockCalled =>
       LET tg     == events'[Len(events')].tag
           pre    == IF deferred_endif = <<>> THEN <<>>
                     ELSE IF tg.name \in {<<"e","l","i","f">>, <<"e","l","s","e">>} THEN deferred_endif[2]
                     ELSE deferred_endif[1] \o deferred_endif[2]
           opener == IF tg.kind = "html" THEN <<"<">> \o tg.name
                     ELSE control_blocks_start(tg)
           front  == stream \o pre \o opener
       IN  /\ deferred_endif' = <<>>
           /\ Len(stream') >= Len(front)
           /\ SubSeq(stream', 1, Len(front)) = front]_vars

\* C19 witness: a completed parse in which the second if was started with
\* the first one's endif and newline pending (both written), and the else
\* with the second one's (newline only).
C19_Witness ==
  /\ text = <<"i","f"," ","x","\n","i","f"," ","x","\n","e","l","s","e","\n">>
  /\ Completed
  /\ stream = <<"{","%"," ","i","f"," ","x"," ","%","}","{","%"," ","e","n","d","i","f"," ","%","}","\n","{","%"," ","i","f"," ","x"," ","%","}","\n","{","%"," ","e","l","s","e"," ","%","}","{","%"," ","e","n","d","i","f"," ","%","}","\n">>

\* C20: when a step calls newlines() with a close pending after its
\* end_block() calls, the slot's trailing whitespace is still empty, and
\* after the step it is the text passed to newlines().
C20_NewlinesNeverDiscarded ==
  [][(state' # "raised" /\ Len(events') > Len(events)
        /\ events'[Len(events')].ev = "newlines") =>
       LET k == end_blocks(Emitter, EndBlocksCalled)
       IN  k.deferred_endif # <<>> =>
             /\ k.deferred_endif[2] = <<>>
             /\ deferred_endif' = <<k.deferred_endif[1], events'[Len(events')].text>>]_vars

\* C20 witness: newlines() has been called with the endif of 'if x' pending
\* and has stored the newline behind it.
C20_Witness ==
  /\ text = <<"i","f"," ","x","\n","p"," ","x","\n">>
  /\ state = "tag"
  /\ Len(events) = 3
  /\ events[3] = [ev |-> "newlines", text |-> <<"\n">>]
  /\ deferred_endif = <<<<"{","%"," ","e","n","d","i","f"," ","%","}">>, <<"\n">>>>

\* C21: the two indent stacks have the same length, the bottom indent level
\* is the empty text, and every other level is the level below it followed
\* by at least one more character.
C21_IndentStacksConsistent ==
  /\ Len(indent_levels) = Len(indented_blocks)
  /\ indent_levels[1] = <<>>
  /\ \A i \in 2..Len(indent_levels) :
       /\ Len(indent_levels[i]) > Len(indent_levels[i - 1])
       /\ SubSeq(indent_levels[i], 1, Len(indent_levels[i - 1])) = indent_levels[i - 1]

\* C21 witness: the parse of two nested blocks has pushed two indent levels
\* and the dedent of the final newline has popped both.
C21_Witness ==
  /\ text = <<"i","f"," ","a","\n"," ","i","f"," ","b","\n"," "," ","p","\n">>
  /\ Completed
  /\ Count(stream, <<"<","p",">">>) = 1
  /\ indent_levels = << <<>> >>
  /\ indented_blocks = <<0>>

RECURSIVE Total(_)
\* the sum of a sequence of numbers
Total(s) == IF s = <<>> THEN 0 ELSE Head(s) + Total(Tail(s))

\* C22: whenever the indent state is entered, indented_blocks adds up to
\* the depth of the emitter's block stack; a step of indent raises nothing
\* but 'Bad indentation' (no end_block() pops an empty stack), pops as many
\* blocks as it calls end_block(), and leaves the two numbers equal.
C22_IndentedBlocksMatchStack ==
  /\ [](state = "indent" => Total(indented_blocks) = Len(blocks))
  /\ [][(state = "indent" /\ state' # "indent") =>
          /\ state' = "raised" => (err'.cls = "LexError" /\ err'.msg = "Bad indentation")
          /\ Len(blocks') = Len(blocks) - EndBlocksCalled
          /\ Total(indented_blocks') = Len(blocks')]_vars

\* C22 witness: indent is entered with three blocks open, one on each of
\* three indent levels.
C22_Witness ==
  /\ text = <<"i","f"," ","a","\n"," ","i","f"," ","b","\n"," "," ","p","\n">>
  /\ state = "indent"
  /\ indented_blocks = <<1, 1, 1>>
  /\ Len(blocks) = 3

\* the verbatim leader '!=' or '=' of the text at offset p (<<>> if none)
ConcluderLeader(p) ==
  IF SubSeq(text, p + 1, Min2(p + 2, Len(text))) = <<"!","=">> THEN <<"!","=">>
  ELSE IF SubSeq(text, p + 1, Min2(p + 1, Len(text))) = <<"=">> THEN <<"=">>
  ELSE <<>>

\* C23: a step of maybe_tag_concluder at '=' or '!=' calls start_block for
\* the HTML tag and re-enters tag with the cursor in front of the leader;
\* the step of tag that follows calls start_block(ControlTag(leader)) and
\* goes to verbatim with the cursor behind the leader.
C23_ConcluderLeaderOpensVerbatim ==
  /\ [][(state = "maybe_tag_concluder" /\ start = pos /\ ConcluderLeader(pos) # <<>>) =>
          /\ state' = "tag"
          /\ start' = pos /\ pos' = pos
          /\ Len(events') = Len(events) + 1
          /\ events'[Len(events')] = [ev |-> "start_block", tag |-> this_tag]]_vars
  /\ [][(/\ state = "tag" /\ ConcluderLeader(start) # <<>>
         /\ events # <<>> /\ Last(events).ev = "start_block"
         /\ Last(events).tag.kind = "html") =>
          /\ state' = "verbatim"
          /\ start' = start + Len(ConcluderLeader(start))
          /\ pos' = start'
          /\ events' = Append(events,
               [ev |-> "start_block",
                tag |-> ControlTag(ConcluderLeader(start), None)])]_vars

\* the offset at which the line that holds offset p of the text begins
LineStart(p) ==
  LET nls == {i \in 1..Min2(p, Len(text)) : text[i] = "\n"}
  IN  IF nls = {} THEN 0 ELSE CHOOSE i \in nls : \A j \in nls : j <= i

\* C24: a run that a state has ended by raising holds a LexError (error()
\* has not failed with an IndexError of its own) whose line number is one
\* more than the number of newlines in front of start and whose line is
\* the source line that holds start.
C24_DiagnosticConstructed ==
  state = "raised" =>
    /\ err.cls # "IndexError"
    /\ err.cls = "LexError" =>
         /\ err.lineno = 1 + Count(SubSeq(text, 1, Min2(start, Len(text))), <<"\n">>)
         /\ err.line = SubSeq(text, LineStart(start) + 1, LineEnd(text, start))

\* C25: a step of the qualifier state at a dot finds an identifier
\* character behind the dot and stores a class shorthand that is not empty.
C25_ClassShorthandNotEmpty ==
  [][(state = "qualifier" /\ start = pos /\ pos < Len(text) /\ text[pos + 1] = ".") =>
       /\ pos + 1 < Len(text)
       /\ text[pos + 2] \in valid_in_idents
       /\ state' = "maybe_qualifier"
       /\ this_tag'.class_ # <<>>]_vars

\* the first offset at which pat occurs in s (the length of s if nowhere)
Find(s, pat) ==
  LET at == {i \in 0..(Len(s) - Len(pat)) : SubSeq(s, i + 1, i + Len(pat)) = pat}
  IN  IF at = {} THEN Len(s) ELSE CHOOSE i \in at : \A j \in at : i <= j

\* the deferred close a start_block() of a tag other than elif and else
\* writes first
Flush == IF deferred_endif = <<>> THEN <<>> ELSE deferred_endif[1] \o deferred_endif[2]

\* the block that encloses the tag of the next start_block(), NoTag if none
Enclosing == IF blocks = <<>> THEN NoTag ELSE Last(blocks)

InCase == Enclosing.kind = "control" /\ Enclosing.name = <<"c","a","s","e">>

\* the event the step has added to the log, raised or not
Called == events'[Len(events')]

\* the tokens of the stream that carry the temporary name of the n-th case
CaseTokensWellFormed(n) ==
  LET var  == <<"_","j","a","d","e","_">> \o Decimal(n)
      set  == <<"{","%"," ","s","e","t"," ">> \o var \o <<" ","="," ">>
      if   == <<"{","%"," ","i","f"," ">> \o var \o <<" ","=","="," ">>
      elif == <<"{","%"," ","e","l","i","f"," ">> \o var \o <<" ","=","="," ">>
  IN  /\ Count(stream, set) = 1
      /\ Count(stream, if) <= 1
      /\ Count(stream, if) = 1 => Find(stream, set) < Find(stream, if)
      /\ Count(stream, elif) > 0 =>
           (Count(stream, if) = 1 /\ Find(stream, if) < Find(stream, elif))

\* C26: for every sequence of emitter events, each case has a temporary
\* name of its own, set once, with at most one if token in front of all
\* its elif tokens; start_block(case) writes the set token, start_block of
\* when writes if for the first when of the case and elif for the others,
\* start_block of default writes else, and end_block of the case writes
\* endif; start_block raises for a when or default that is not directly
\* inside a case, for a when after default, for a second default and for
\* a default before any when, and end_block raises for a case with no when.
C26_CaseBlockTokens ==
  /\ [](\A n \in 0..(tmpvar_count - 1) : CaseTokensWellFormed(n))
  /\ []((InCase /\ state = "emitting") =>
          (Enclosing.seen_when <=>
             Count(stream, <<"{","%"," ","i","f"," ">> \o Enclosing.var \o <<" ","=","="," ">>) = 1))
  /\ [][(Len(events') = Len(events) + 1 /\ Called.ev = "start_block"
           /\ Called.tag.name = <<"c","a","s","e">>) =>
          /\ state' = "emitting"
          /\ tmpvar_count' = tmpvar_count + 1
          /\ stream' = stream \o Flush \o <<"{","%"," ","s","e","t"," ","_","j","a","d","e","_">> \o Decimal(tmpvar_count)
                         \o <<" ","="," ">> \o Called.tag.head \o <<" ","%","}">>]_vars
  /\ [][(Len(events') = Len(events) + 1 /\ Called.ev = "start_block"
           /\ Called.tag.name = <<"w","h","e","n">>) =>
          IF ~InCase \/ Enclosing.seen_default THEN state' = "raised"
          ELSE /\ state' = "emitting"
               /\ stream' = stream \o Flush
                    \o (IF Enclosing.seen_when THEN <<"{","%"," ","e","l","i","f"," ">> ELSE <<"{","%"," ","i","f"," ">>)
                    \o Enclosing.var \o <<" ","=","="," ">> \o Called.tag.head \o <<" ","%","}">>]_vars
  /\ [][(Len(events') = Len(events) + 1 /\ Called.ev = "start_block"
           /\ Called.tag.name = <<"d","e","f","a","u","l","t">>) =>
          IF ~InCase \/ Enclosing.seen_default \/ ~Enclosing.seen_when
          THEN state' = "raised"
          ELSE /\ state' = "emitting"
               /\ stream' = stream \o Flush \o <<"{","%"," ","e","l","s","e"," ","%","}">>]_vars
  /\ [][(Len(events') = Len(events) + 1 /\ Called.ev = "end_block" /\ InCase) =>
          IF ~Enclosing.seen_when THEN state' = "raised"
          ELSE /\ state' = "emitting"
               /\ stream' = stream \o <<"{","%"," ","e","n","d","i","f"," ","%","}">>]_vars

\* C26 witness: a case with two whens has been written and closed.
C26_Witness ==
  /\ state = "emitting"
  /\ blocks = <<>>
  /\ stream = <<"{","%"," ","s","e","t"," ","_","j","a","d","e","_","0"," ","="," ","x"," ","%","}","{","%"," ","i","f"," ","_","j","a","d","e","_","0"," ","=","="," ","a"," ","%","}","{","%"," ","e","l","i","f"," ","_","j","a","d","e","_","0"," ","=","="," ","a"," ","%","}","{","%"," ","e","n","d","i","f"," ","%","}">>

\* the indentation text the indent state reads at the cursor: the inline
\* whitespace behind the run of newlines
IndentText ==
  LET n == SkipWhile(text, pos, {"\n"})
  IN  SubSeq(text, n + 1, SkipWhile(text, n, inline_whitespace))

\* the indentation text extends no level and equals none
BadIndentation ==
  /\ ~(/\ Len(IndentText) > Len(Last(indent_levels))
       /\ SubSeq(IndentText, 1, Len(Last(indent_levels))) = Last(indent_levels))
  /\ \A i \in 1..Len(indent_levels) : indent_levels[i] # IndentText

\* C27: a step of the indent state raises exactly when the indentation
\* text neither extends the top indent level nor equals a level of the
\* stack; it then raises 'Bad indentation' and leaves the indent stacks,
\* the emitter's block stack, its deferred close, the event log and the
\* output as they were.
C27_BadIndentationUnchanged ==
  [][(state = "indent" /\ start = pos /\ pos < Len(text) /\ state' # "indent") =>
       /\ BadIndentation <=> state' = "raised"
       /\ state' = "raised" =>
            /\ err'.cls = "LexError"
            /\ err'.msg = "Bad indentation"
            /\ UNCHANGED <<indent_levels, indented_blocks, blocks, deferred_endif,
                           events, stream>>]_vars

\* C27 witness: a run has ended in 'Bad indentation' with two indent
\* levels and two blocks open.
C27_Witness ==
  /\ state = "raised"
  /\ err.cls = "LexError"
  /\ err.msg = "Bad indentation"
  /\ text = <<"p"," ","x","\n"," "," ","p"," ","x","\n"," ","p"," ","x","\n">>
  /\ indent_levels = << <<>>, <<" "," ">> >>
  /\ Len(blocks) = 2

\* the alias the text has at offset p (<<>> if none)
AliasAt(p) ==
  LET aliases == {<<"e","l","s","e"," ","i","f">>, <<"!","!","!">>, <<"e","a","c","h">>, <<"b","l","o","c","k"," ","a","p","p","e","n","d">>, <<"b","l","o","c","k"," ","p","r","e","p","e","n","d">>}
      at      == {a \in aliases : SubSeq(text, p + 1, Min2(p + Len(a), Len(text))) = a}
  IN  IF at = {} THEN <<>> ELSE CHOOSE a \in at : TRUE

\* the name an alias stands for
Normalised(a) ==
  CASE a = <<"e","l","s","e"," ","i","f">> -> <<"e","l","i","f">>
    [] a = <<"!","!","!">> -> <<"d","o","c","t","y","p","e">>
    [] a = <<"e","a","c","h">> -> <<"f","o","r">>
    [] a = <<"b","l","o","c","k"," ","a","p","p","e","n","d">> -> <<"a","p","p","e","n","d">>
    [] a = <<"b","l","o","c","k"," ","p","r","e","p","e","n","d">> -> <<"p","r","e","p","e","n","d">>

\* an alias stands at the cursor, followed by no tag character where it
\* ends in one
AliasLine ==
  LET a == AliasAt(pos)
      e == pos + Len(a)
  IN  /\ a # <<>>
      /\ (Last(a) \in valid_in_tags /\ e < Len(text)) => text[e + 1] \notin valid_in_tags

\* C28: a step of the tag state at an alias calls start_block for one
\* ControlTag, named by the keyword the alias stands for, with the rest of
\* the line behind the inline whitespace as its head, and goes on to
\* indent.
C28_AliasesNormalised ==
  [][(state = "tag" /\ start = pos /\ AliasLine /\ state' # "tag") =>
       LET h0 == SkipWhile(text, pos + Len(AliasAt(pos)), inline_whitespace)
       IN  /\ state' = "indent"
           /\ events' = Append(events,
                [ev |-> "start_block",
                 tag |-> ControlTag(Normalised(AliasAt(pos)),
                                    SubSeq(text, h0 + 1, LineEnd(text, h0)))])]_vars

\* C28 witness: 'else if c' has opened the control block elif with head c.
C28_Witness ==
  /\ text = <<"e","l","s","e"," ","i","f"," ","c","\n">>
  /\ state = "indent"
  /\ events = <<[ev |-> "start_block", tag |-> ControlTag(<<"e","l","i","f">>, <<"c">>)]>>

\* the text of the attributes kv written one after another in that order
RECURSIVE AttrText(_)
AttrText(kv) ==
  IF kv = <<>> THEN <<>>
  ELSE <<" ">> \o kv[1][1] \o <<"=","\"","{","{"," ">> \o kv[1][2] \o <<" ","|","e","s","c","a","p","e","}","}","\"">> \o AttrText(Tail(kv))

\* C29: the step that opens an HTML tag ends its opener with the attributes
\* other than id and class in the order in which their keys were first
\* written in the attribute list.
C29_AttrsInSourceOrder ==
  [][(state = "maybe_tag_concluder" /\ start = pos /\ state' # "maybe_tag_concluder"
        /\ state' # "raised") =>
       endswith(stream',
                AttrText(SelectSeq(this_tag.attr,
                                   LAMBDA kv : kv[1] \notin {<<"i","d">>, <<"c","l","a","s","s">>}))
                \o <<">">>)]_vars

====
